---- MODULE Spec2Model ----
\* x2md node-poc: the upload endpoint (POST /api/convert), the ConversionService
\* dispatcher, its four extraction routines and the Markdown table renderer.
\*
\* Text is modelled at character level: a JS string is a sequence of
\* one-character strings, so joins, splits and case folding are computed, and a
\* rendered table can be cut back into lines by the properties.
EXTENDS Integers, Sequences, FiniteSets, TLC

VARIABLES pc, file, pending, records, markdown, outcome, res, arg, ret

vars == <<pc, file, pending, records, markdown, outcome, res, arg, ret>>
srvVars == <<pc, file, pending, records, markdown, outcome, res>>

----------------------------------------------------------------------------
\* Bounds of the model.

\* Concurrent requests in flight at the endpoint.
NumCalls == 2
\* Rows of a table (header included), cells of one row, cells of a whole table.
MaxRows == 3
MaxCols == 2
MaxCells == 4
\* Sheets of a workbook.
MaxSheets == 2

Calls == 1..NumCalls

Min(a, b) == IF a < b THEN a ELSE b
Max(a, b) == IF a > b THEN a ELSE b

----------------------------------------------------------------------------
\* JS values. Every value is a record [t, v]: t the type tag, v the payload
\* (characters of a string, elements of an array, <<>> otherwise).

JS(t, v) == [t |-> t, v |-> v]
Str(chars) == JS("string", chars)
Arr(elems) == JS("array", elems)
Hole == JS("hole", <<>>)           \* an array slot that was never assigned
Undefined == JS("undefined", <<>>)
Null == JS("null", <<>>)
Num == JS("number", <<>>)          \* a non-array, non-iterable value

\* A settled computation: a returned value or a thrown Error (value = message).
Return(v) == [kind |-> "return", value |-> v]
Throw(m) == [kind |-> "throw", value |-> m]
Call(routine) == [kind |-> "call", value |-> routine]
None == [kind |-> "none", value |-> <<>>]

----------------------------------------------------------------------------
\* String primitives.

\* String.prototype.toLowerCase on one character.
LowerChar(ch) ==
    CASE ch = "C" -> "c" [] ch = "D" -> "d" [] ch = "F" -> "f" [] ch = "L" -> "l"
      [] ch = "O" -> "o" [] ch = "P" -> "p" [] ch = "S" -> "s" [] ch = "T" -> "t"
      [] ch = "V" -> "v" [] ch = "X" -> "x" [] ch = "Y" -> "y" [] ch = "Z" -> "z"
      [] ch = "A" -> "a"
      [] OTHER -> ch

toLowerCaseIdentity(s) == s
toLowerCase(s) == [i \in 1..Len(s) |-> LowerChar(s[i])]

\* String.prototype.split with a one-character separator: the pieces between
\* separators, empty pieces kept.
RECURSIVE split(_, _)
split(s, sep) ==
    IF \A i \in 1..Len(s) : s[i] # sep
    THEN <<s>>
    ELSE LET i == CHOOSE k \in 1..Len(s) :
                      s[k] = sep /\ \A j \in 1..(k - 1) : s[j] # sep
         IN <<SubSeq(s, 1, i - 1)>> \o split(SubSeq(s, i + 1, Len(s)), sep)

\* Array.prototype.pop: the last element.
pop(a) == a[Len(a)]

\* The text an array element contributes to Array.prototype.join: null,
\* undefined and holes contribute the empty string.
ToText(cell) == IF cell.t = "string" THEN cell.v ELSE <<>>

\* Array.prototype.join.
RECURSIVE join(_, _)
join(a, sep) ==
    IF Len(a) = 0 THEN <<>>
    ELSE IF Len(a) = 1 THEN ToText(a[1])
    ELSE ToText(a[1]) \o sep \o join(Tail(a), sep)

RowOpen == <<"|", " ">>
RowSep == <<" ", "|", " ">>
RowClose == <<" ", "|", "\n">>
Dashes == <<"-", "-", "-">>

UnsupportedPrefix ==
    <<"U", "n", "s", "u", "p", "p", "o", "r", "t", "e", "d", " ", "f", "i", "l",
      "e", " ", "t", "y", "p", "e", ":", " ">>
ConversionFailed ==
    <<" ", "c", "o", "n", "v", "e", "r", "s", "i", "o", "n", " ", "f", "a", "i",
      "l", "e", "d", ":", " ">>
DocxPrefix == <<"D", "O", "C", "X">> \o ConversionFailed
PdfPrefix == <<"P", "D", "F">> \o ConversionFailed
XlsxPrefix == <<"X", "L", "S", "X">> \o ConversionFailed
CsvPrefix == <<"C", "S", "V">> \o ConversionFailed
SheetHeading == <<"#", "#", " ", "S", "h", "e", "e", "t", ":", " ">>
BlankLine == <<"\n", "\n">>
\* TypeError messages of the engine for header.join on a non-array and for
\* spreading a non-iterable.
JoinNotFunction ==
    <<"h", "e", "a", "d", "e", "r", ".", "j", "o", "i", "n", " ", "i", "s", " ",
      "n", "o", "t", " ", "a", " ", "f", "u", "n", "c", "t", "i", "o", "n">>
RowNotIterable ==
    <<"r", "o", "w", " ", "i", "s", " ", "n", "o", "t", " ", "i", "t", "e", "r",
      "a", "b", "l", "e">>
NoFileUploaded ==
    <<"N", "o", " ", "f", "i", "l", "e", " ", "u", "p", "l", "o", "a", "d", "e", "d">>

docx == <<"d", "o", "c", "x">>
pdf == <<"p", "d", "f">>
xlsx == <<"x", "l", "s", "x">>
csv == <<"c", "s", "v">>
txt == <<"t", "x", "t">>
xyz == <<"x", "y", "z">>

----------------------------------------------------------------------------
\* ConversionService.convert: the dispatcher.

\* const extension = originalName.split('.').pop().toLowerCase()
extensionNoLower(originalName) == toLowerCaseIdentity(pop(split(originalName, ".")))
extension(originalName) == toLowerCase(pop(split(originalName, ".")))

\* default: throw new Error(`Unsupported file type: ${extension}`)
UnsupportedAnonymous(ext) == Throw(UnsupportedPrefix)
Unsupported(ext) == Throw(UnsupportedPrefix \o ext)

\* The switch: the routine convert calls, or the Error it throws.
convertByMime(mimetype, originalName) ==
    IF mimetype = "text/csv" THEN Call("convertCsv")
    ELSE LET ext == extension(originalName) IN
         CASE ext = docx -> Call("convertDocx")
           [] ext = pdf -> Call("convertPdf")
           [] ext = xlsx -> Call("convertXlsx")
           [] ext = csv -> Call("convertCsv")
           [] OTHER -> Unsupported(ext)
convert(mimetype, originalName) ==
    LET ext == extension(originalName) IN
    CASE ext = docx -> Call("convertDocx")
      [] ext = pdf -> Call("convertPdf")
      [] ext = xlsx -> Call("convertXlsx")
      [] ext = csv -> Call("convertCsv")
      [] OTHER -> Unsupported(ext)

----------------------------------------------------------------------------
\* ConversionService.jsonToMarkdownTable: the table renderer.

\* if (!rows || rows.length === 0) return ''
IsEmptyRowsNullOnly(rows) == rows.t # "array"
IsEmptyRows(rows) == rows.t # "array" \/ Len(rows.v) = 0

\* const header = rows[0]  (undefined when the index is out of range)
header(rows) == IF Len(rows.v) >= 1 THEN rows.v[1] ELSE Undefined
\* const body = rows.slice(1)
body(rows) == IF Len(rows.v) >= 1 THEN Tail(rows.v) ELSE <<>>

\* header.map(() => '---'): map skips the holes of a sparse array and leaves
\* them holes in the result.
separatorCells(hdr) ==
    [i \in 1..Len(hdr.v) |-> IF hdr.v[i] = Hole THEN Hole ELSE Str(Dashes)]

\* const paddedRow = [...row]: a fresh array; spreading reads holes as undefined.
spread(row) == [i \in 1..Len(row.v) |-> IF row.v[i] = Hole THEN Undefined ELSE row.v[i]]

\* while (paddedRow.length < header.length) paddedRow.push('')
RECURSIVE paddedRow(_, _)
paddedRowTruncating(cells, n) ==
    [i \in 1..n |-> IF i <= Len(cells) THEN cells[i] ELSE Str(<<>>)]
paddedRow(cells, n) ==
    IF Len(cells) < n THEN paddedRow(Append(cells, Str(<<>>)), n) ELSE cells

\* body.forEach(row => ...): the lines of the body rows from index i on, appended
\* to markdown; a row that cannot be spread throws out of the loop.
RECURSIVE bodyLines(_, _, _, _)
bodyLines(rows, hdr, i, md) ==
    IF i > Len(rows) THEN Return(md)
    ELSE IF rows[i].t # "array" THEN Throw(RowNotIterable)
    ELSE bodyLines(rows, hdr, i + 1,
                   md \o RowOpen \o join(paddedRow(spread(rows[i]), Len(hdr.v)), RowSep)
                      \o RowClose)

jsonToMarkdownTable(rows) ==
    IF IsEmptyRows(rows) THEN Return(<<>>)
    ELSE LET hdr == header(rows) IN
         IF hdr.t # "array" THEN Throw(JoinNotFunction)
         ELSE bodyLines(body(rows), hdr, 1,
                        RowOpen \o join(hdr.v, RowSep) \o RowClose
                          \o RowOpen \o join(separatorCells(hdr), RowSep) \o RowClose)

\* The rows array as jsonToMarkdownTable leaves it: rows are padded in a copy
\* (paddedRow), never in place.
rowsAfterTablePaddedInPlace(rows) ==
    IF IsEmptyRows(rows) \/ header(rows).t # "array" THEN rows
    ELSE Arr([i \in 1..Len(rows.v) |->
                 IF i = 1 \/ rows.v[i].t # "array" THEN rows.v[i]
                 ELSE Arr(paddedRow(spread(rows.v[i]), Len(header(rows).v)))])
rowsAfterTable(rows) == rows

----------------------------------------------------------------------------
\* The extraction routines. Each parser is an external library: what it makes
\* of the uploaded bytes (the value it returns or the Error it raises) is the
\* model's view of the buffer.

\* convertDocx after `await mammoth.extractRawText(...)`: result.value, or the
\* rejection rethrown with the DOCX prefix.
convertDocxSwallowing(result) ==
    IF result.kind = "throw" THEN Return(<<>>) ELSE Return(result.value)
convertDocx(result) ==
    IF result.kind = "throw" THEN Throw(DocxPrefix \o result.value)
    ELSE Return(result.value)

\* convertPdf after `await pdf(buffer)`: data.text, or the rejection rethrown.
convertPdf(data) ==
    IF data.kind = "throw" THEN Throw(PdfPrefix \o data.value)
    ELSE Return(data.value)

\* The catch clause of convertXlsx; markdown is the accumulator the try block
\* leaves behind, which the clause does not use.
xlsxCatchPartial(error, md) == Return(md)
xlsxCatch(error, md) == Throw(XlsxPrefix \o error.value)

\* `## Sheet: ${sheetName}\n\n`
sheetHeading(sheetName) == SheetHeading \o sheetName \o BlankLine

\* if (json.length > 0)
sheetHasRowsAlways(json) == TRUE
sheetHasRows(json) == Len(json.v) > 0

\* workbook.SheetNames.forEach(sheetName => ...) from index i on. The result
\* carries the accumulator (markdown), the arrays handed to the renderer as
\* the renderer left them (handed), and how the loop ended.
RECURSIVE sheetsForEach(_, _, _, _)
sheetsForEach(workbook, i, md, handed) ==
    IF i > Len(workbook.SheetNames)
    THEN [markdown |-> md, handed |-> handed, completion |-> Return(md)]
    ELSE LET sheetName == workbook.SheetNames[i]
             json == workbook.Sheets[sheetName]
         IN IF json.kind = "throw"
            THEN [markdown |-> md, handed |-> handed, completion |-> json]
            ELSE IF sheetHasRows(json.value)
            THEN LET table == jsonToMarkdownTable(json.value)
                     after == Append(handed, rowsAfterTable(json.value))
                 IN IF table.kind = "throw"
                    THEN [markdown |-> md \o sheetHeading(sheetName),
                          handed |-> after, completion |-> table]
                    ELSE sheetsForEach(workbook, i + 1,
                                       md \o sheetHeading(sheetName) \o table.value
                                          \o BlankLine,
                                       after)
            ELSE sheetsForEach(workbook, i + 1, md, handed)

\* convertXlsx on what xlsx.read makes of the buffer (a workbook or an Error).
convertXlsx(buffer) ==
    IF buffer.kind = "throw"
    THEN [markdown |-> <<>>, handed |-> <<>>, completion |-> xlsxCatch(buffer, <<>>)]
    ELSE LET r == sheetsForEach(buffer.value, 1, <<>>, <<>>)
         IN IF r.completion.kind = "throw"
            THEN [r EXCEPT !.completion = xlsxCatch(r.completion, r.markdown)]
            ELSE r

\* convertCsv on what csv-parse makes of the buffer (the records or an Error).
convertCsv(buffer) ==
    IF buffer.kind = "throw"
    THEN [markdown |-> <<>>, handed |-> <<>>,
          completion |-> Throw(CsvPrefix \o buffer.value)]
    ELSE LET table == jsonToMarkdownTable(buffer.value)
         IN [markdown |-> <<>>, handed |-> <<rowsAfterTable(buffer.value)>>,
             completion |-> IF table.kind = "throw"
                            THEN Throw(CsvPrefix \o table.value)
                            ELSE table]

----------------------------------------------------------------------------
\* Inputs.

Mimetypes == {"text/csv", "application/pdf", "application/octet-stream"}

UpperChar(ch) ==
    CASE ch = "c" -> "C" [] ch = "d" -> "D" [] ch = "f" -> "F" [] ch = "l" -> "L"
      [] ch = "o" -> "O" [] ch = "p" -> "P" [] ch = "s" -> "S" [] ch = "t" -> "T"
      [] ch = "v" -> "V" [] ch = "x" -> "X" [] ch = "y" -> "Y" [] ch = "z" -> "Z"
      [] OTHER -> ch

\* Every casing of a lower-case word.
Casings(w) == { c \in [1..Len(w) -> {"c", "d", "f", "l", "o", "p", "s", "t", "v", "x",
                                     "y", "z", "C", "D", "F", "L", "O", "P", "S", "T",
                                     "V", "X", "Y", "Z"}] :
                  \A i \in 1..Len(w) : c[i] \in {w[i], UpperChar(w[i])} }

\* What precedes the extension: nothing (a name without a dot), a plain stem,
\* a hidden-file dot, and stems that themselves hold a known extension.
Stems == { <<>>, <<"a", ".">>, <<".">>, <<"a", ".", "c", "s", "v", ".">>,
           <<"p", "d", "f", ".", "A", ".">> }
LowerExtensions == { docx, pdf, xlsx, csv, txt, xyz, <<"c", "s">>, <<>> }
FileNames == { stem \o ext : stem \in Stems,
                             ext \in UNION { Casings(w) : w \in LowerExtensions } }

CellValues == { Hole, Str(<<>>), Str(<<"a">>) }
\* Rows as the parsers build them: csv-parse fills every cell, sheet_to_json
\* assigns the cells a row has, so a row may hold holes but never ends in one.
RowsUpTo(n) ==
    { r \in UNION { [1..k -> CellValues] : k \in 0..n } :
        Len(r) = 0 \/ r[Len(r)] # Hole }

\* The tables of at most n rows and at most `cells` cells in all, every row an
\* array of at most MaxCols cells.
RECURSIVE TablesWithin(_, _)
TablesWithin(n, cells) ==
    IF n = 0 THEN { <<>> }
    ELSE { <<>> } \cup
         UNION { { <<Arr(r)>> \o t : t \in TablesWithin(n - 1, cells - Len(r)) } :
                 r \in RowsUpTo(Min(MaxCols, cells)) }
Tables == TablesWithin(MaxRows, MaxCells)

Messages == { <<"b", "a", "d">> }
Texts == { <<>>, <<"h", "i", "\n">> }

\* Grids a sheet can hold (sheet_to_json with header: 1 leaves the cells a row
\* lacks as holes), and sheet_to_json raising.
Grid0 == Arr(<<>>)
Grid1 == Arr(<<Arr(<<Str(<<"a">>)>>)>>)
Grid2 == Arr(<<Arr(<<Hole, Str(<<"a">>)>>), Arr(<<Str(<<"a">>)>>)>>)
Grid3 == Arr(<<Arr(<<Str(<<"a">>)>>), Arr(<<Str(<<>>), Str(<<"a">>)>>)>>)
\* Arrays whose rows are not all arrays: the renderer raises on them.
GridBadHeader == Arr(<<Num>>)
GridBadRow == Arr(<<Arr(<<Str(<<"a">>)>>), Num>>)
SheetReplies == { Return(Grid0), Return(Grid1), Return(Grid2), Return(GridBadRow) }
                  \cup { Throw(m) : m \in Messages }

SheetNameSet == { <<"S">>, <<"T">>, <<"U">> }
\* The orderings of at most n distinct sheet names.
RECURSIVE NameLists(_)
NameLists(n) ==
    IF n = 0 THEN { <<>> }
    ELSE LET shorter == NameLists(n - 1)
         IN shorter \cup { Append(l, x) : l \in { k \in shorter : Len(k) = n - 1 },
                                          x \in SheetNameSet }
DistinctNameLists(n) ==
    { l \in NameLists(n) : \A i, j \in 1..Len(l) : i # j => l[i] # l[j] }
WorkbooksOver(names) ==
    { [SheetNames |-> names, Sheets |-> f] :
        f \in [{ names[i] : i \in 1..Len(names) } -> SheetReplies] }
Workbooks == UNION { WorkbooksOver(l) : l \in DistinctNameLists(Min(MaxSheets, 3)) }

\* What each parser can make of an uploaded buffer.
DocxBuffers == { Return(t) : t \in Texts } \cup { Throw(m) : m \in Messages }
PdfBuffers == DocxBuffers
CsvBuffers == { Return(Grid0), Return(Grid3), Return(GridBadHeader), Return(GridBadRow) }
                \cup { Throw(m) : m \in Messages }
Book(names, replies) ==
    [SheetNames |-> names, Sheets |-> [n \in { names[i] : i \in 1..Len(names) } |->
                                         replies[CHOOSE i \in 1..Len(names) : names[i] = n]]]
XlsxBuffers ==
    { Return(Book(<<<<"S">>, <<"T">>>>, <<Return(Grid1), Return(Grid2)>>)),
      Return(Book(<<<<"S">>, <<"T">>>>, <<Return(Grid0), Return(Grid0)>>)),
      Return(Book(<<<<"T">>, <<"S">>>>, <<Return(Grid1), Throw(<<"b", "a", "d">>)>>)),
      Return(Book(<<<<"S">>, <<"T">>>>, <<Return(Grid3), Return(GridBadRow)>>)) }
      \cup { Throw(m) : m \in Messages }
NoBuffer == None

\* The uploads the endpoint model receives: one name per routine, in mixed
\* case, and two names no routine takes.
UploadNames == { <<"a", ".", "D", "o", "c", "x">>, <<"a", ".", "p", "d", "f">>,
                 <<"a", ".", "c", "s", "v", ".", "X", "L", "S", "X">>,
                 <<"c", "s", "v">>, <<"a", ".", "t", "x", "t">>,
                 <<"a", ".", "c", "s", "v", ".", "x", "y", "z">> }
UploadMimetypes == { "text/csv", "application/octet-stream" }

----------------------------------------------------------------------------
\* The endpoint: POST /api/convert, NumCalls requests in flight. A request
\* runs from the handler's entry to the first await that suspends it, then
\* from each resumption to the next.

\* req.file as far as the handler's outcome depends on it: the name and the
\* buffer. The declared mimetype is an input of each request.
NoFile == [originalname |-> <<>>, buffer |-> NoBuffer]
NoRes == [status |-> 0, key |-> "", value |-> <<>>]

Init ==
    /\ pc = [c \in Calls |-> "idle"]
    /\ file = [c \in Calls |-> NoFile]
    /\ pending = [c \in Calls |-> None]
    /\ records = [c \in Calls |-> <<>>]
    /\ markdown = [c \in Calls |-> <<>>]
    /\ outcome = [c \in Calls |-> None]
    /\ res = [c \in Calls |-> NoRes]
    /\ arg = None
    /\ ret = None

\* if (!req.file) return res.status(400).json({ error: 'No file uploaded' })
PostNoFile(c) ==
    /\ pc[c] = "idle"
    /\ res' = [res EXCEPT ![c] = [status |-> 400, key |-> "error", value |-> NoFileUploaded]]
    /\ pc' = [pc EXCEPT ![c] = "responded"]
    /\ UNCHANGED <<file, pending, records, markdown, outcome, arg, ret>>

\* The handler calls converter.convert, which runs synchronously up to the
\* first await: the unsupported arm throws, convertXlsx and convertCsv run to
\* their end (neither awaits), convertDocx and convertPdf start the parser and
\* suspend.
PostUnsupported(c) ==
    /\ pc[c] = "idle"
    /\ \E name \in UploadNames, mimetype \in UploadMimetypes :
          LET d == convert(mimetype, name) IN
          /\ d.kind = "throw"
          /\ file' = [file EXCEPT ![c] = [originalname |-> name, buffer |-> NoBuffer]]
          /\ outcome' = [outcome EXCEPT ![c] = d]
    /\ pc' = [pc EXCEPT ![c] = "settled"]
    /\ UNCHANGED <<pending, records, markdown, res, arg, ret>>

PostDocx(c) ==
    /\ pc[c] = "idle"
    /\ \E name \in UploadNames, mimetype \in UploadMimetypes, buffer \in DocxBuffers :
          /\ convert(mimetype, name) = Call("convertDocx")
          /\ file' = [file EXCEPT ![c] = [originalname |-> name, buffer |-> buffer]]
          /\ pending' = [pending EXCEPT ![c] = buffer]
    /\ pc' = [pc EXCEPT ![c] = "awaitDocx"]
    /\ UNCHANGED <<records, markdown, outcome, res, arg, ret>>

PostPdf(c) ==
    /\ pc[c] = "idle"
    /\ \E name \in UploadNames, mimetype \in UploadMimetypes, buffer \in PdfBuffers :
          /\ convert(mimetype, name) = Call("convertPdf")
          /\ file' = [file EXCEPT ![c] = [originalname |-> name, buffer |-> buffer]]
          /\ pending' = [pending EXCEPT ![c] = buffer]
    /\ pc' = [pc EXCEPT ![c] = "awaitPdf"]
    /\ UNCHANGED <<records, markdown, outcome, res, arg, ret>>

PostXlsx(c) ==
    /\ pc[c] = "idle"
    /\ \E name \in UploadNames, mimetype \in UploadMimetypes, buffer \in XlsxBuffers :
          LET r == convertXlsx(buffer) IN
          /\ convert(mimetype, name) = Call("convertXlsx")
          /\ file' = [file EXCEPT ![c] = [originalname |-> name, buffer |-> buffer]]
          /\ records' = [records EXCEPT ![c] = r.handed]
          /\ markdown' = [markdown EXCEPT ![c] = r.markdown]
          /\ outcome' = [outcome EXCEPT ![c] = r.completion]
    /\ pc' = [pc EXCEPT ![c] = "settled"]
    /\ UNCHANGED <<pending, res, arg, ret>>

PostCsv(c) ==
    /\ pc[c] = "idle"
    /\ \E name \in UploadNames, mimetype \in UploadMimetypes, buffer \in CsvBuffers :
          LET r == convertCsv(buffer) IN
          /\ convert(mimetype, name) = Call("convertCsv")
          /\ file' = [file EXCEPT ![c] = [originalname |-> name, buffer |-> buffer]]
          /\ records' = [records EXCEPT ![c] = r.handed]
          /\ markdown' = [markdown EXCEPT ![c] = r.markdown]
          /\ outcome' = [outcome EXCEPT ![c] = r.completion]
    /\ pc' = [pc EXCEPT ![c] = "settled"]
    /\ UNCHANGED <<pending, res, arg, ret>>

\* What `await` hands back to a suspended routine: the settlement of the
\* promise that very call created.
awaitedOfLatest(c) ==
    pending[CHOOSE d \in Calls : /\ pending[d] # None
                                 /\ \A e \in Calls : pending[e] # None => e <= d]
awaited(c) == pending[c]

\* mammoth.extractRawText settles; convertDocx resumes.
DocxResume(c) ==
    /\ pc[c] = "awaitDocx"
    /\ outcome' = [outcome EXCEPT ![c] = convertDocx(awaited(c))]
    /\ pending' = [pending EXCEPT ![c] = None]
    /\ pc' = [pc EXCEPT ![c] = "settled"]
    /\ UNCHANGED <<file, records, markdown, res, arg, ret>>

\* pdf(buffer) settles; convertPdf resumes.
PdfResume(c) ==
    /\ pc[c] = "awaitPdf"
    /\ outcome' = [outcome EXCEPT ![c] = convertPdf(awaited(c))]
    /\ pending' = [pending EXCEPT ![c] = None]
    /\ pc' = [pc EXCEPT ![c] = "settled"]
    /\ UNCHANGED <<file, records, markdown, res, arg, ret>>

\* res.json({ markdown }) / res.status(500).json({ error: error.message })
responseMixed(result) ==
    [status |-> IF result.kind = "return" THEN 200 ELSE 500,
     key |-> "markdown", value |-> result.value]
response(result) ==
    IF result.kind = "return"
    THEN [status |-> 200, key |-> "markdown", value |-> result.value]
    ELSE [status |-> 500, key |-> "error", value |-> result.value]

\* convert's promise has settled; the handler resumes after its await.
Respond(c) ==
    /\ pc[c] = "settled"
    /\ res' = [res EXCEPT ![c] = response(outcome[c])]
    /\ pc' = [pc EXCEPT ![c] = "responded"]
    /\ UNCHANGED <<file, pending, records, markdown, outcome, arg, ret>>

Next ==
    \E c \in Calls :
        \/ PostNoFile(c)
        \/ PostUnsupported(c)
        \/ PostDocx(c)
        \/ PostPdf(c)
        \/ PostXlsx(c)
        \/ PostCsv(c)
        \/ DocxResume(c)
        \/ PdfResume(c)
        \/ Respond(c)

Spec == Init /\ [][Next]_vars

----------------------------------------------------------------------------
\* The service's functions applied once to an input drawn from the bounded
\* sets: convert's dispatch, jsonToMarkdownTable, convertCsv, convertXlsx.

FnArgs ==
    { [fn |-> "convert", mimetype |-> m, originalName |-> n] :
        m \in Mimetypes, n \in FileNames }
    \cup { [fn |-> "jsonToMarkdownTable", rows |-> r] :
             r \in { Null } \cup { Arr(t) : t \in Tables } }
    \cup { [fn |-> "convertCsv", buffer |-> b] :
             b \in { Return(Arr(t)) : t \in Tables } \cup { Throw(m) : m \in Messages } }
    \cup { [fn |-> "convertXlsx", buffer |-> b] :
             b \in { Return(w) : w \in Workbooks } \cup { Throw(m) : m \in Messages } }

InitFn ==
    /\ pc = [c \in Calls |-> "idle"]
    /\ file = [c \in Calls |-> NoFile]
    /\ pending = [c \in Calls |-> None]
    /\ records = [c \in Calls |-> <<>>]
    /\ markdown = [c \in Calls |-> <<>>]
    /\ outcome = [c \in Calls |-> None]
    /\ res = [c \in Calls |-> NoRes]
    /\ arg \in FnArgs
    /\ ret = None

CallConvert ==
    /\ ret = None /\ arg.fn = "convert"
    /\ ret' = convert(arg.mimetype, arg.originalName)
    /\ UNCHANGED <<arg, srvVars>>

CallJsonToMarkdownTable ==
    /\ ret = None /\ arg.fn = "jsonToMarkdownTable"
    /\ ret' = [completion |-> jsonToMarkdownTable(arg.rows),
               handed |-> <<rowsAfterTable(arg.rows)>>, markdown |-> <<>>]
    /\ UNCHANGED <<arg, srvVars>>

CallConvertCsv ==
    /\ ret = None /\ arg.fn = "convertCsv"
    /\ ret' = convertCsv(arg.buffer)
    /\ UNCHANGED <<arg, srvVars>>

CallConvertXlsx ==
    /\ ret = None /\ arg.fn = "convertXlsx"
    /\ ret' = convertXlsx(arg.buffer)
    /\ UNCHANGED <<arg, srvVars>>

NextFn == CallConvert \/ CallJsonToMarkdownTable \/ CallConvertCsv \/ CallConvertXlsx

SpecFn == InitFn /\ [][NextFn]_vars

----------------------------------------------------------------------------
\* Vocabulary of the properties. These describe the expected results without
\* the service's own operators: the extension by position, case by
\* UpperChar, a table line by its cells.

\* The text after the last '.' of a name (the whole name when it has no dot).
ExtOf(name) ==
    LET dots == { i \in 1..Len(name) : name[i] = "." }
        last == IF dots = {} THEN 0 ELSE CHOOSE i \in dots : \A j \in dots : j <= i
    IN SubSeq(name, last + 1, Len(name))

SameUpToCase(a, b) ==
    Len(a) = Len(b) /\ \A i \in 1..Len(a) : UpperChar(a[i]) = UpperChar(b[i])

NoUpperCase(a) == \A i \in 1..Len(a) : UpperChar(a[i]) # a[i] \/ a[i] = "."

HasExt(name, w) == SameUpToCase(ExtOf(name), w)
KnownExt(name) == \E w \in { docx, pdf, xlsx, csv } : HasExt(name, w)

HasPrefix(s, p) == Len(s) >= Len(p) /\ SubSeq(s, 1, Len(p)) = p
HasSuffix(s, p) == Len(s) >= Len(p) /\ SubSeq(s, Len(s) - Len(p) + 1, Len(s)) = p
Contains(s, p) == \E i \in 1..(Len(s) - Len(p) + 1) : SubSeq(s, i, i + Len(p) - 1) = p

RECURSIVE Cat(_)
Cat(ss) == IF Len(ss) = 0 THEN <<>> ELSE Head(ss) \o Cat(Tail(ss))

\* The line of a table row with the given cell texts, without its newline:
\* "|" and then " text |" per cell; the degenerate "|  |" for no cell.
ExpectedLine(texts) ==
    IF Len(texts) = 0 THEN <<"|", " ", " ", "|">>
    ELSE <<"|">> \o Cat([i \in 1..Len(texts) |-> <<" ">> \o texts[i] \o <<" ", "|">>])

TextOf(cell) == IF cell.t = "string" THEN cell.v ELSE <<>>
Texts_(row) == [i \in 1..Len(row.v) |-> TextOf(row.v[i])]
\* The cell texts of row r in a table whose header has n cells.
PaddedTexts(r, n) ==
    [i \in 1..Max(Len(r.v), n) |-> IF i <= Len(r.v) THEN TextOf(r.v[i]) ELSE <<>>]
AllDashes(n) == [i \in 1..n |-> Dashes]

Lines(text) == split(text, "\n")

FnDone(fn) == arg # None /\ arg.fn = fn /\ ret # None

\* The rows a table call renders: the argument of jsonToMarkdownTable, or the
\* records csv-parse returned to convertCsv.
IsTableCall ==
    \/ FnDone("jsonToMarkdownTable") /\ arg.rows.t = "array"
    \/ FnDone("convertCsv") /\ arg.buffer.kind = "return"
TableRows == IF arg.fn = "convertCsv" THEN arg.buffer.value.v ELSE arg.rows.v

----------------------------------------------------------------------------
\* C1: convert picks its routine from the lower-cased text after the last '.'
\* of the name alone: docx, pdf, xlsx and csv reach convertDocx, convertPdf,
\* convertXlsx and convertCsv in every casing, under every mimetype and
\* whatever precedes the extension.
C1_DispatchByExtension ==
    FnDone("convert") =>
        /\ HasExt(arg.originalName, docx) => ret = Call("convertDocx")
        /\ HasExt(arg.originalName, pdf) => ret = Call("convertPdf")
        /\ HasExt(arg.originalName, xlsx) => ret = Call("convertXlsx")
        /\ HasExt(arg.originalName, csv) => ret = Call("convertCsv")

\* A .PDF name, declared text/csv and with csv in its stem, reaches convertPdf.
C1_Witness ==
    /\ FnDone("convert")
    /\ arg.originalName = <<"a", ".", "c", "s", "v", ".", "P", "d", "F">>
    /\ arg.mimetype = "text/csv"
    /\ ret = Call("convertPdf")

\* C2: a name whose extension is none of the four known ones fails with
\* "Unsupported file type: " followed by that extension in lower case, and
\* no routine is called.
C2_UnsupportedNamesExtension ==
    (FnDone("convert") /\ ~KnownExt(arg.originalName)) =>
        /\ ret.kind = "throw"
        /\ HasPrefix(ret.value, UnsupportedPrefix)
        /\ LET named == SubSeq(ret.value, Len(UnsupportedPrefix) + 1, Len(ret.value))
           IN SameUpToCase(named, ExtOf(arg.originalName)) /\ NoUpperCase(named)

C2_Witness ==
    /\ FnDone("convert")
    /\ arg.originalName = <<"a", ".", "c", "s", "v", ".", "X", "y", "Z">>
    /\ ret = Throw(UnsupportedPrefix \o xyz)

\* C3: a name whose extension is txt is converted: convert does not fail as
\* an unsupported format.
C3_TxtIsConverted ==
    (FnDone("convert") /\ HasExt(arg.originalName, txt)) => ret.kind # "throw"

\* C4: for a table with a non-empty header row, the first output line is the
\* header row, the second the separator, the separator has one cell per header
\* cell, each of them ---, whatever the header cells hold, and no other line
\* is a separator.
C4_HeaderThenAllDashSeparator ==
    (IsTableCall /\ Len(TableRows) > 0 /\ Len(TableRows[1].v) > 0) =>
        /\ ret.completion.kind = "return"
        /\ LET lines == Lines(ret.completion.value)
               separator == ExpectedLine(AllDashes(Len(TableRows[1].v)))
           IN /\ Len(lines) >= 2
              /\ lines[1] = ExpectedLine(Texts_(TableRows[1]))
              /\ lines[2] = separator
              /\ \A i \in 1..Len(lines) : lines[i] = separator => i = 2

\* C5: one line per body row, in row order; the line of row r holds
\* max(len(r), len(header)) cells: r's cells in order, then empty cells up to
\* the header's width; a longer row keeps all its cells.
C5_BodyRowsPaddedNotTruncated ==
    (IsTableCall /\ Len(TableRows) > 0) =>
        /\ ret.completion.kind = "return"
        /\ LET lines == Lines(ret.completion.value)
               n == Len(TableRows[1].v)
           IN /\ Len(lines) = Len(TableRows) + 2
              /\ lines[Len(lines)] = <<>>
              /\ \A k \in 2..Len(TableRows) :
                    lines[k + 1] = ExpectedLine(PaddedTexts(TableRows[k], n))

\* A one-column header, then a row of two cells (kept whole) and an empty row
\* (padded to one cell).
C5_Witness ==
    /\ IsTableCall
    /\ Len(TableRows) = 3
    /\ Len(TableRows[1].v) = 1 /\ Len(TableRows[2].v) = 2 /\ Len(TableRows[3].v) = 0
    /\ TableRows[2].v[2] = Str(<<"a">>)
    /\ ret.completion.kind = "return"

\* What makes a routine's try block raise, read off the buffer: the parser's
\* own Error, or the TypeError of rendering rows that are not arrays. None when
\* nothing raises.
RenderFailure(rows) ==
    IF Len(rows.v) = 0 THEN None
    ELSE IF rows.v[1].t # "array" THEN Throw(JoinNotFunction)
    ELSE IF \E k \in 2..Len(rows.v) : rows.v[k].t # "array" THEN Throw(RowNotIterable)
    ELSE None
SheetFailure(json) == IF json.kind = "throw" THEN json ELSE RenderFailure(json.value)
XlsxFailure(buffer) ==
    IF buffer.kind = "throw" THEN buffer
    ELSE LET wb == buffer.value
             failing == { i \in 1..Len(wb.SheetNames) :
                            SheetFailure(wb.Sheets[wb.SheetNames[i]]) # None }
         IN IF failing = {} THEN None
            ELSE SheetFailure(wb.Sheets[wb.SheetNames[
                     CHOOSE i \in failing : \A j \in failing : i <= j]])
UnderlyingFailure(f) ==
    CASE HasExt(f.originalname, xlsx) -> XlsxFailure(f.buffer)
      [] HasExt(f.originalname, csv) ->
            IF f.buffer.kind = "throw" THEN f.buffer ELSE RenderFailure(f.buffer.value)
      [] KnownExt(f.originalname) -> IF f.buffer.kind = "throw" THEN f.buffer ELSE None
      [] OTHER -> None

\* The format's name as the error messages spell it: the extension in capitals.
FormatTag(name) == [i \in 1..Len(ExtOf(name)) |-> UpperChar(ExtOf(name)[i])]

\* convert's promise has settled for request c.
Settled(c) == pc[c] \in { "settled", "responded" } /\ file[c] # NoFile

\* C6: convertXlsx emits one "## Sheet: <name>" heading per sheet that has
\* rows, in sheet order, each followed by that sheet's table; a sheet without
\* rows contributes nothing, and a workbook of such sheets yields "".
C6_OneHeadingPerSheetWithRows ==
    (FnDone("convertXlsx") /\ arg.buffer.kind = "return"
       /\ XlsxFailure(arg.buffer) = None) =>
        LET wb == arg.buffer.value
            shown == SelectSeq(wb.SheetNames, LAMBDA n : Len(wb.Sheets[n].value.v) > 0)
            text == ret.completion.value
            headings == SelectSeq(Lines(text), LAMBDA l : HasPrefix(l, SheetHeading))
        IN /\ ret.completion.kind = "return"
           /\ Len(headings) = Len(shown)
           /\ \A k \in 1..Len(shown) : headings[k] = SheetHeading \o shown[k]
           /\ text = Cat([k \in 1..Len(shown) |->
                            SheetHeading \o shown[k] \o BlankLine
                              \o jsonToMarkdownTable(wb.Sheets[shown[k]].value).value
                              \o BlankLine])
           /\ Len(shown) = 0 => text = <<>>

\* Two sheets: the first has no rows, the second has; one heading comes out.
C6_Witness ==
    /\ FnDone("convertXlsx") /\ arg.buffer.kind = "return"
    /\ arg.buffer.value.SheetNames = << <<"T">>, <<"S">> >>
    /\ arg.buffer.value.Sheets[<<"T">>] = Return(Grid0)
    /\ arg.buffer.value.Sheets[<<"S">>] = Return(Grid2)
    /\ ret.completion.kind = "return"
    /\ HasPrefix(ret.completion.value, SheetHeading \o <<"S">>)

\* C7: when the parser or the table rendering raises inside a routine for a
\* known extension, convert fails with one Error whose message starts with
\* the format's name and ends with the underlying message, verbatim; the
\* endpoint reports that message and no result.
C7_FailureWrappedWithFormatAndMessage ==
    \A c \in Calls :
        (Settled(c) /\ KnownExt(file[c].originalname)
           /\ UnderlyingFailure(file[c]) # None) =>
            /\ outcome[c].kind = "throw"
            /\ HasPrefix(outcome[c].value, FormatTag(file[c].originalname))
            /\ HasSuffix(outcome[c].value, UnderlyingFailure(file[c]).value)
            /\ pc[c] = "responded" =>
                  res[c] = [status |-> 500, key |-> "error", value |-> outcome[c].value]

\* A .Docx upload mammoth rejects with "bad", answered with status 500.
C7_Witness ==
    \E c \in Calls :
        /\ pc[c] = "responded"
        /\ HasExt(file[c].originalname, docx)
        /\ file[c].buffer = Throw(<<"b", "a", "d">>)
        /\ res[c].status = 500
        /\ res[c].value = DocxPrefix \o <<"b", "a", "d">>

\* C8: a call ends as a complete Markdown string or as an Error, never as a
\* part of the result: when a sheet fails after earlier sheets were
\* accumulated, convert throws and the accumulated text reaches neither the
\* Error nor the response.
C8_NoPartialResult ==
    \A c \in Calls :
        Settled(c) =>
            /\ outcome[c].kind \in { "return", "throw" }
            /\ UnderlyingFailure(file[c]) # None => outcome[c].kind = "throw"
            /\ (outcome[c].kind = "throw" /\ markdown[c] # <<>>) =>
                  ~Contains(outcome[c].value, markdown[c])
            /\ (outcome[c].kind = "return" /\ HasExt(file[c].originalname, xlsx)) =>
                  outcome[c].value = markdown[c]
            /\ pc[c] = "responded" =>
                  /\ res[c].value = outcome[c].value
                  /\ res[c].key = IF outcome[c].kind = "throw" THEN "error" ELSE "markdown"
                  /\ res[c].status = IF outcome[c].kind = "throw" THEN 500 ELSE 200

\* A workbook whose first sheet was accumulated and whose second sheet failed.
C8_Witness ==
    \E c \in Calls :
        /\ pc[c] = "responded"
        /\ HasExt(file[c].originalname, xlsx)
        /\ HasPrefix(markdown[c], SheetHeading)
        /\ outcome[c].kind = "throw"
        /\ res[c].key = "error"

\* C9: jsonToMarkdownTable returns "" for an empty or absent row sequence, no
\* header or separator line, and so convertCsv returns "" for zero records.
C9_EmptyRowsGiveEmptyString ==
    /\ (FnDone("jsonToMarkdownTable") /\ (arg.rows = Null \/ arg.rows = Arr(<<>>))) =>
          ret.completion = Return(<<>>)
    /\ (FnDone("convertCsv") /\ arg.buffer = Return(Arr(<<>>))) =>
          ret.completion = Return(<<>>)

C9_Witness ==
    /\ FnDone("convertCsv")
    /\ arg.buffer = Return(Arr(<<>>))
    /\ ret.completion = Return(<<>>)

\* The outcome of a request run alone on its name and buffer, declared as
\* mimetype.
Alone(f, mimetype) ==
    LET d == convert(mimetype, f.originalname) IN
    IF d.kind = "throw" THEN d
    ELSE CASE d.value = "convertDocx" -> convertDocx(f.buffer)
           [] d.value = "convertPdf" -> convertPdf(f.buffer)
           [] d.value = "convertXlsx" -> convertXlsx(f.buffer).completion
           [] d.value = "convertCsv" -> convertCsv(f.buffer).completion

\* The row arrays the parser built from a buffer.
ParsedArrays(f) ==
    IF f.buffer.kind # "return" THEN {}
    ELSE IF HasExt(f.originalname, csv) THEN { f.buffer.value }
    ELSE IF HasExt(f.originalname, xlsx)
    THEN { f.buffer.value.Sheets[n].value :
             n \in { m \in DOMAIN f.buffer.value.Sheets :
                       f.buffer.value.Sheets[m].kind = "return" } }
    ELSE {}

\* C10: however the requests interleave at their awaits, each one's outcome
\* is the outcome of running it alone on its own name and buffer, and the
\* arrays handed to jsonToMarkdownTable are unmodified afterwards.
C10_CallsIndependent ==
    \A c \in Calls :
        Settled(c) =>
            /\ \A mimetype \in Mimetypes : outcome[c] = Alone(file[c], mimetype)
            /\ \A k \in 1..Len(records[c]) : records[c][k] \in ParsedArrays(file[c])

\* Two DOCX conversions in flight with different buffers; the later-numbered
\* one has resumed while the other still awaits mammoth.
C10_Witness ==
    /\ pc[1] = "awaitDocx" /\ pc[2] = "settled"
    /\ HasExt(file[1].originalname, docx) /\ HasExt(file[2].originalname, docx)
    /\ file[1].buffer = Throw(<<"b", "a", "d">>)
    /\ file[2].buffer = Return(<<"h", "i", "\n">>)
    /\ outcome[2] = Return(<<"h", "i", "\n">>)

====
